---------------------------- MODULE Spec2Model ----------------------------
(***************************************************************************)
(* A model of src/src/city.ts: the procedural city layout (createBuildings,*)
(* createRoads, createPedestrians, createStreetElements) and the per-frame *)
(* update loop (animate: updateDayNightCycle, updateCars,                  *)
(* updatePedestrians, updateTrafficLights).                                *)
(*                                                                         *)
(* Numbers.  The program computes in floating point; the model computes in *)
(* fixed point with U units per world unit (1 unit = 0.00001), so 0.01 is  *)
(* U \div 100 and every sum of the program is exact in the model.  A value *)
(* of Math.random() is a multiple of 1/RandDen in [0, 1).                  *)
(***************************************************************************)
EXTENDS Integers, Sequences, FiniteSets, TLC

U == 10 ^ 5
RandDen == 10 ^ 3

(* ------------------------------ bounds -------------------------------- *)
\* the number of random sources (seeds) Init draws the layout from
NumSeeds == 3
\* the number of frames the frame driver runs: one day of dayDuration
\* seconds (12000 frames) and the first frames of the next
MaxFrames == 12010
\* the largest gridDivisions the layout functions are applied to
MaxDivisions == 20
\* the number of frames of the clock updateDayNightCycle is applied to
MaxDayFrames == 12000

(* ------------------------- program constants --------------------------- *)
DefaultGridSize == 100
DefaultGridDivisions == 10
dayDuration == 120
CarsPerRoad == 3
PedestriansPerRoad == 6

\* the grid sizes the layout functions are applied to
GridSizes == {50, DefaultGridSize, 200}

(* --------------------------- Math.random ------------------------------ *)
\* The values a call of Math.random() returns in the model, in 1/RandDen.
RandTable ==
  <<0, 999, 499, 500, 250, 750, 1, 998, 333, 667, 900, 100, 501>>

\* The n-th value drawn from the random source `seed`.  Math.random is
\* unseeded, so every sequence of values is a possible one.
Random(seed, n) == RandTable[((seed + n * (seed + 1)) % Len(RandTable)) + 1]

Seeds == 0 .. (NumSeeds - 1)

(* ----------------------------- geometry -------------------------------- *)
\* blockSize = gridSize / gridDivisions
BlockSize(gs, gd) == (gs * U) \div gd
\* centerOffset = gridSize / 2
CenterOffset(gs) == (gs * U) \div 2

\* Math.random() * gridSize - centerOffset
RandomAlong(r, gs) == r * gs * (U \div RandDen) - CenterOffset(gs)

(* --------------------------- createBuildings --------------------------- *)
\* line 127 with the two tests joined by && instead of ||
SkipCellAnd(i, j) == i % 3 = 1 /\ j % 3 = 1
\* line 127: the cells createBuildings leaves free for roads
SkipCell(i, j) == i % 3 = 1 \/ j % 3 = 1

\* lines 133-135 with the apartment test given precedence
BuildingTypeApartmentLast(i, j) ==
  IF (i + j) % 5 = 0 THEN "apartment"
  ELSE IF (i + j) % 7 = 0 THEN "shop" ELSE "skyscraper"
\* lines 133-135: the second assignment overwrites the first
BuildingType(i, j) ==
  LET t1 == "skyscraper"
      t2 == IF (i + j) % 5 = 0 THEN "apartment" ELSE t1
      t3 == IF (i + j) % 7 = 0 THEN "shop" ELSE t2
  IN  t3

\* lines 129-130: x (or z) of the building of row/column i
BuildingCoord(i, gs, gd) ==
  i * BlockSize(gs, gd) - CenterOffset(gs) + BlockSize(gs, gd) \div 2

\* lines 129-140: one iteration of the inner loop
BuildingAt(i, j, gs, gd) ==
  [type |-> BuildingType(i, j),
   x |-> BuildingCoord(i, gs, gd),
   z |-> BuildingCoord(j, gs, gd)]

RECURSIVE BuildingsRow(_, _, _, _)
\* lines 125-141: the inner loop, over j
BuildingsRow(i, j, gs, gd) ==
  IF j >= gd THEN <<>>
  ELSE IF SkipCell(i, j) THEN BuildingsRow(i, j + 1, gs, gd)
  ELSE <<BuildingAt(i, j, gs, gd)>> \o BuildingsRow(i, j + 1, gs, gd)

RECURSIVE BuildingsLoop(_, _, _)
\* lines 124-142: the outer loop, over i
BuildingsLoop(i, gs, gd) ==
  IF i >= gd THEN <<>>
  ELSE BuildingsRow(i, 0, gs, gd) \o BuildingsLoop(i + 1, gs, gd)

\* lines 115-145
createBuildings(gs, gd) == BuildingsLoop(0, gs, gd)

(* ----------------------------- createRoads ----------------------------- *)
\* lanes alternating from +2: the first and third car in lane +2
LaneFromRight(c) == IF c % 2 = 0 THEN 2 ELSE -2

\* line 331 / 353: const lane = c % 2 === 0 ? -2 : 2
Lane(c) == IF c % 2 = 0 THEN -2 ELSE 2
\* line 344 / 366: direction: lane > 0 ? -1 : 1
LaneDirection(lane) == IF lane > 0 THEN -1 ELSE 1
\* line 343 / 365: Math.random() * 0.2 + 0.1
CarSpeed(r) == r * ((2 * U) \div (10 * RandDen)) + U \div 10

\* lines 330-347: the c-th car of horizontal road i
HorizontalCar(i, c, gs, gd, seed) ==
  LET lane == Lane(c)
      n == 100 * i + 2 * c
  IN  [road |-> "horizontal", roadIndex |-> i,
       speed |-> CarSpeed(Random(seed, n + 1)),
       direction |-> LaneDirection(lane),
       x |-> RandomAlong(Random(seed, n), gs),
       z |-> i * BlockSize(gs, gd) - CenterOffset(gs) + lane * U,
       rotation |-> IF lane > 0 THEN 180 ELSE 0,
       headlight |-> U \div 2]

\* lines 352-369: the c-th car of vertical road i
VerticalCar(i, c, gs, gd, seed) ==
  LET lane == Lane(c)
      n == 100 * i + 2 * CarsPerRoad + 2 * c
  IN  [road |-> "vertical", roadIndex |-> i,
       speed |-> CarSpeed(Random(seed, n + 1)),
       direction |-> LaneDirection(lane),
       x |-> i * BlockSize(gs, gd) - CenterOffset(gs) + lane * U,
       z |-> RandomAlong(Random(seed, n), gs),
       rotation |-> IF lane > 0 THEN -90 ELSE 90,
       headlight |-> U \div 2]

\* line 374 with a test that also accepts j mod 3 = 2
IsIntersectionOffRoad(j) == j % 3 # 0
\* line 374: traffic lights only where road i meets road j
IsIntersection(j) == j % 3 = 1

\* lines 377-390: createTrafficLight() leaves the three lights dark
\* (emissiveIntensity 0, lines 570-598); state and timer are random
TrafficLightAt(i, j, gs, gd, seed) ==
  LET n == 100 * i + 4 * CarsPerRoad + 2 * j
  IN  [x |-> i * BlockSize(gs, gd) - CenterOffset(gs)
               + BlockSize(gs, gd) \div 2 + 3 * U,
       z |-> j * BlockSize(gs, gd) - CenterOffset(gs)
               + BlockSize(gs, gd) \div 2 + 3 * U,
       state |-> (Random(seed, n) * 3) \div RandDen,
       timer |-> Random(seed, n + 1) * 10 * (U \div RandDen),
       red |-> 0, yellow |-> 0, green |-> 0]

RECURSIVE TrafficLightsLoop(_, _, _, _, _)
\* lines 373-391
TrafficLightsLoop(i, j, gs, gd, seed) ==
  IF j >= gd THEN <<>>
  ELSE IF ~IsIntersection(j) THEN TrafficLightsLoop(i, j + 1, gs, gd, seed)
  ELSE <<TrafficLightAt(i, j, gs, gd, seed)>>
         \o TrafficLightsLoop(i, j + 1, gs, gd, seed)

\* line 299: roads only at these indices
IsRoadIndex(i) == i % 3 = 1

RECURSIVE RoadsLoop(_, _, _, _)
\* lines 297-392
RoadsLoop(i, gs, gd, seed) ==
  IF i >= gd THEN [cars |-> <<>>, trafficLights |-> <<>>]
  ELSE LET rest == RoadsLoop(i + 1, gs, gd, seed)
       IN  IF ~IsRoadIndex(i) THEN rest
           ELSE [cars |->
                   [c \in 1 .. CarsPerRoad |->
                      HorizontalCar(i, c - 1, gs, gd, seed)]
                   \o [c \in 1 .. CarsPerRoad |->
                         VerticalCar(i, c - 1, gs, gd, seed)]
                   \o rest.cars,
                 trafficLights |->
                   TrafficLightsLoop(i, 0, gs, gd, seed)
                   \o rest.trafficLights]

\* lines 285-395
createRoads(gs, gd, seed) == RoadsLoop(0, gs, gd, seed)

(* --------------------------- createPedestrians ------------------------- *)
\* line 637 / 661 and 651 / 675: Math.random() > 0.5 ? 1 : -1
RandomSign(r) == IF 2 * r > RandDen THEN 1 ELSE -1
\* line 650 / 674: Math.random() * 0.05 + 0.02
PedestrianSpeed(r) == r * ((5 * U) \div (100 * RandDen)) + (2 * U) \div 100
\* line 638 / 662: (blockSize / 2 + 1) * side
SidewalkOffset(side, gs, gd) == (BlockSize(gs, gd) \div 2 + U) * side

\* lines 636-655: the p-th pedestrian of horizontal road i
HorizontalPedestrian(i, p, gs, gd, seed) ==
  LET n == 100 * i + 4 * p
      side == RandomSign(Random(seed, n))
  IN  [road |-> "horizontal", roadIndex |-> i, side |-> side,
       speed |-> PedestrianSpeed(Random(seed, n + 2)),
       direction |-> RandomSign(Random(seed, n + 3)),
       x |-> RandomAlong(Random(seed, n + 1), gs),
       z |-> i * BlockSize(gs, gd) - CenterOffset(gs)
               + SidewalkOffset(side, gs, gd),
       rotation |-> 0]

\* lines 660-679: the p-th pedestrian of vertical road i
VerticalPedestrian(i, p, gs, gd, seed) ==
  LET n == 100 * i + 4 * PedestriansPerRoad + 4 * p
      side == RandomSign(Random(seed, n))
  IN  [road |-> "vertical", roadIndex |-> i, side |-> side,
       speed |-> PedestrianSpeed(Random(seed, n + 2)),
       direction |-> RandomSign(Random(seed, n + 3)),
       x |-> i * BlockSize(gs, gd) - CenterOffset(gs)
               + SidewalkOffset(side, gs, gd),
       z |-> RandomAlong(Random(seed, n + 1), gs),
       rotation |-> 0]

RECURSIVE PedestriansLoop(_, _, _, _)
\* lines 631-681
PedestriansLoop(i, gs, gd, seed) ==
  IF i >= gd THEN <<>>
  ELSE IF ~IsRoadIndex(i) THEN PedestriansLoop(i + 1, gs, gd, seed)
  ELSE [p \in 1 .. PedestriansPerRoad |->
          HorizontalPedestrian(i, p - 1, gs, gd, seed)]
       \o [p \in 1 .. PedestriansPerRoad |->
             VerticalPedestrian(i, p - 1, gs, gd, seed)]
       \o PedestriansLoop(i + 1, gs, gd, seed)

\* lines 621-684
createPedestrians(gs, gd, seed) == PedestriansLoop(0, gs, gd, seed)

(* ------------------------- createStreetElements ------------------------ *)
\* createLamppost (lines 831-886): bulb emissiveIntensity 0.5, light 0.8
Lamppost(x, z) ==
  [kind |-> "lamppost", x |-> x, z |-> z,
   light |-> (8 * U) \div 10, bulb |-> U \div 2]
Bench(x, z, rot) == [kind |-> "bench", x |-> x, z |-> z, rotation |-> rot]
Tree(x, z) == [kind |-> "tree", x |-> x, z |-> z]

\* lines 750 etc.: k * blockSize - centerOffset + blockSize / 2
StreetCoord(k, gs, gd) ==
  k * BlockSize(gs, gd) - CenterOffset(gs) + BlockSize(gs, gd) \div 2

\* lines 747-780: the elements at index j along horizontal road i
HorizontalElements(i, j, gs, gd) ==
  (IF j % 4 = 0
     THEN <<Lamppost(StreetCoord(j, gs, gd), StreetCoord(i, gs, gd) + 5 * U)>>
     ELSE <<>>)
  \o (IF j % 4 = 2
        THEN <<Bench(StreetCoord(j, gs, gd), StreetCoord(i, gs, gd) + 4 * U, 0)>>
        ELSE <<>>)
  \o (IF j % 2 = 0
        THEN <<Tree(StreetCoord(j, gs, gd), StreetCoord(i, gs, gd) + 6 * U)>>
        ELSE <<>>)

\* lines 788-823: the elements at index j along vertical road i
VerticalElements(i, j, gs, gd) ==
  (IF j % 4 = 0
     THEN <<Lamppost(StreetCoord(i, gs, gd) + 5 * U, StreetCoord(j, gs, gd))>>
     ELSE <<>>)
  \o (IF j % 4 = 2
        THEN <<Bench(StreetCoord(i, gs, gd) + 4 * U, StreetCoord(j, gs, gd), 90)>>
        ELSE <<>>)
  \o (IF j % 2 = 0
        THEN <<Tree(StreetCoord(i, gs, gd) + 6 * U, StreetCoord(j, gs, gd))>>
        ELSE <<>>)

\* street elements at the intersections as well
SkipIntersectionNever(j) == FALSE

\* line 744 / 785: no street element where road i meets road j
SkipIntersection(j) == j % 3 = 1

RECURSIVE ElementsAlong(_, _, _, _, _)
\* lines 743-781 (horizontal = TRUE) and 784-824 (horizontal = FALSE)
ElementsAlong(horizontal, i, j, gs, gd) ==
  IF j >= gd THEN <<>>
  ELSE IF SkipIntersection(j) THEN ElementsAlong(horizontal, i, j + 1, gs, gd)
  ELSE (IF horizontal THEN HorizontalElements(i, j, gs, gd)
                      ELSE VerticalElements(i, j, gs, gd))
       \o ElementsAlong(horizontal, i, j + 1, gs, gd)

RECURSIVE StreetLoop(_, _, _)
\* lines 739-825
StreetLoop(i, gs, gd) ==
  IF i >= gd THEN <<>>
  ELSE IF ~IsRoadIndex(i) THEN StreetLoop(i + 1, gs, gd)
  ELSE ElementsAlong(TRUE, i, 0, gs, gd)
       \o ElementsAlong(FALSE, i, 0, gs, gd)
       \o StreetLoop(i + 1, gs, gd)

\* lines 729-828
createStreetElements(gs, gd) == StreetLoop(0, gs, gd)

(* -------------------------------- state -------------------------------- *)
VARIABLES
  gridSize,        \* line 36
  gridDivisions,   \* line 37
  buildings,       \* line 73
  cars,            \* line 74
  trafficLights,   \* line 74
  pedestrians,     \* line 75
  streetElements,  \* line 76
  time,            \* line 79, in units of 1/U
  sunLight,        \* line 59: position and intensity of the directional light
  ambientLight,    \* line 55: intensity of the ambient light
  background,      \* line 8: scene.background, <<r, g, b>> in 0 .. 255
  pc,              \* the statement of initCity / animate that runs next
  history          \* per traffic light: its state and timer at creation, its
                   \* flips and update calls since, the call of its last flip

vars ==
  <<gridSize, gridDivisions, buildings, cars, trafficLights, pedestrians,
    streetElements, time, sunLight, ambientLight, background, pc, history>>

(* ------------------------------ updateCars ----------------------------- *)
\* lines 982-989 without the else branch: only direction +1 wraps
CarAdvanceOneWay(pos, speed, direction, centerOffset) ==
  LET p == pos + speed * direction
  IN  IF direction > 0 /\ p > centerOffset THEN -centerOffset ELSE p
\* lines 982-989 (x) and 991-998 (z): move, then wrap at the edge
CarAdvance(pos, speed, direction, centerOffset) ==
  LET p == pos + speed * direction
  IN  IF direction > 0 /\ p > centerOffset THEN -centerOffset
      ELSE IF direction < 0 /\ p < -centerOffset THEN centerOffset
      ELSE p

\* a car that turns round at the edge of the grid and changes lane instead
\* of re-entering at the opposite edge
UpdateCarTurnsBack(car, gs) ==
  LET pos == IF car.road = "horizontal" THEN car.x ELSE car.z
      p == pos + car.speed * car.direction
  IN  IF p > CenterOffset(gs) \/ p < -CenterOffset(gs)
        THEN IF car.road = "horizontal"
               THEN [car EXCEPT !.direction = -car.direction,
                                !.z = car.z + 4 * U * car.direction]
               ELSE [car EXCEPT !.direction = -car.direction,
                                !.x = car.x + 4 * U * car.direction]
        ELSE IF car.road = "horizontal"
               THEN [car EXCEPT !.x = p]
               ELSE [car EXCEPT !.z = p]

\* lines 979-1000: the body of cars.forEach
UpdateCar(car, gs) ==
  IF car.road = "horizontal"
    THEN [car EXCEPT
            !.x = CarAdvance(car.x, car.speed, car.direction, CenterOffset(gs))]
    ELSE [car EXCEPT
            !.z = CarAdvance(car.z, car.speed, car.direction, CenterOffset(gs))]

\* lines 976-1001
updateCars(cs, gs) == [k \in DOMAIN cs |-> UpdateCar(cs[k], gs)]

(* --------------------------- updatePedestrians ------------------------- *)
\* lines 1010-1027 with the edge test before the move: the wrap comes one
\* call late
PedestrianAdvanceLate(pos, speed, direction, centerOffset) ==
  IF direction > 0 /\ pos > centerOffset THEN -centerOffset
  ELSE IF direction < 0 /\ pos < -centerOffset THEN centerOffset
  ELSE pos + speed * direction
\* lines 1010-1027 (x) and 1029-1045 (z): move, then wrap at the edge
PedestrianAdvance(pos, speed, direction, centerOffset) ==
  LET p == pos + speed * direction
  IN  IF direction > 0 /\ p > centerOffset THEN -centerOffset
      ELSE IF direction < 0 /\ p < -centerOffset THEN centerOffset
      ELSE p

\* lines 1007-1047: the body of pedestrians.forEach; rotation in degrees
UpdatePedestrian(ped, gs) ==
  IF ped.road = "horizontal"
    THEN [ped EXCEPT
            !.x = PedestrianAdvance(ped.x, ped.speed, ped.direction,
                                    CenterOffset(gs)),
            !.rotation = IF ped.direction > 0 THEN 90 ELSE -90]
    ELSE [ped EXCEPT
            !.z = PedestrianAdvance(ped.z, ped.speed, ped.direction,
                                    CenterOffset(gs)),
            !.rotation = IF ped.direction > 0 THEN 0 ELSE 180]

\* lines 1004-1048
updatePedestrians(ps, gs) == [k \in DOMAIN ps |-> UpdatePedestrian(ps[k], gs)]

(* -------------------------- updateTrafficLights ------------------------ *)
\* line 1058 stepping by 2: the cycle runs backwards
NextStateSkip(state) == (state + 2) % 3
\* line 1058 with % 2 for % 3: GREEN is left and never entered again
NextStateTwoPhase(state) == (state + 1) % 2

\* line 1058
NextState(state) == (state + 1) % 3

\* line 1057 with >= for >
TimerExpiredAtFive(timer) == timer >= 5 * U
\* line 1057
TimerExpired(timer) == timer > 5 * U

\* lines 1066-1081 with the breaks of the switch missing: all three lit
ActivateAll(tl) == [tl EXCEPT !.red = U, !.yellow = U, !.green = U]
\* lines 1066-1081: reset all lights, then activate the current one
Activate(tl) ==
  [tl EXCEPT !.red = IF tl.state = 0 THEN U ELSE 0,
             !.yellow = IF tl.state = 1 THEN U ELSE 0,
             !.green = IF tl.state = 2 THEN U ELSE 0]

\* lines 1054-1060 with the timer not reset at the flip: the excess over 5
\* is carried into the next phase
TickCarry(tl) ==
  LET t == tl.timer + U \div 100
  IN  IF TimerExpired(t)
        THEN [tl EXCEPT !.state = NextState(tl.state), !.timer = t - 5 * U]
        ELSE [tl EXCEPT !.timer = t]

\* lines 1054-1060: the timer and the state
Tick(tl) ==
  LET t == tl.timer + U \div 100
  IN  IF TimerExpired(t)
        THEN [tl EXCEPT !.state = NextState(tl.state), !.timer = 0]
        ELSE [tl EXCEPT !.timer = t]

\* lines 1052-1082: the body of trafficLights.forEach
UpdateTrafficLight(tl) == Activate(Tick(tl))

\* lines 1051-1083
updateTrafficLights(tls) == [k \in DOMAIN tls |-> UpdateTrafficLight(tls[k])]

\* whether this update of the light changes its state (line 1057)
Flips(tl) == Tick(tl).state # tl.state

(* -------------------------- updateDayNightCycle ------------------------ *)
\* One frame advances the clock by 0.01 (line 87), so time is a multiple of
\* 0.01 and a day has 100 * dayDuration frames.
Tick01 == U \div 100
FramesPerDay == 100 * dayDuration

\* line 88: (time % dayDuration) / dayDuration, as a number of
\* 1/FramesPerDay (exact: time is a multiple of 0.01)
DayProgress(t) == (t % (dayDuration * U)) \div Tick01

\* Math.sin over a quarter turn, U * sin, at 61 equally spaced angles
\* (every 1.5 degrees); exact at 0, 30 and 90 degrees
SinTable ==
  <<0, 2618, 5234, 7846, 10453, 13053, 15643, 18224, 20791, 23345, 25882,
    28402, 30902, 33381, 35837, 38268, 40674, 43051, 45399, 47716, 50000,
    52250, 54464, 56641, 58779, 60876, 62932, 64945, 66913, 68835, 70711,
    72537, 74314, 76041, 77715, 79335, 80902, 82413, 83867, 85264, 86603,
    87882, 89101, 90259, 91355, 92388, 93358, 94264, 95106, 95882, 96593,
    97237, 97815, 98325, 98769, 99144, 99452, 99692, 99863, 99966, 100000>>

QuarterTurn == FramesPerDay \div 4
SinStep == QuarterTurn \div (Len(SinTable) - 1)

\* U * sin of m/FramesPerDay of a turn, 0 <= m <= QuarterTurn: the table,
\* linearly interpolated between its entries
SinQuarter(m) ==
  LET q == m \div SinStep
      r == m % SinStep
  IN  IF r = 0 THEN SinTable[q + 1]
      ELSE SinTable[q + 1]
             + ((SinTable[q + 2] - SinTable[q + 1]) * r) \div SinStep

\* U * Math.sin(a), the angle a in 1/FramesPerDay of a turn
Sin(a) ==
  LET m == a % FramesPerDay
  IN  IF m <= QuarterTurn THEN SinQuarter(m)
      ELSE IF m <= 2 * QuarterTurn THEN SinQuarter(2 * QuarterTurn - m)
      ELSE IF m <= 3 * QuarterTurn THEN -SinQuarter(m - 2 * QuarterTurn)
      ELSE -SinQuarter(FramesPerDay - m)

\* U * Math.cos(a)
Cos(a) == Sin(a + QuarterTurn)

\* line 1093: dayProgress * 2 pi - pi / 2, in 1/FramesPerDay of a turn
SunAngle(dp) == dp - QuarterTurn

\* line 1095: Math.sin(sunAngle) * 50 + 50
SunHeight(dp) == Sin(SunAngle(dp)) * 50 + 50 * U

\* a sun light that stays where initCity put it (line 60) and only changes
\* its intensity
SunLightInPlace(dp) ==
  [x |-> 50 * U, y |-> 100 * U, z |-> 30 * U,
   intensity |-> IF SunHeight(dp) > 50 * U THEN U
                 ELSE IF SunHeight(dp) \div 50 > 0 THEN SunHeight(dp) \div 50
                 ELSE 0]

\* lines 1097-1109: the position and the intensity of the sun light
SunLightAt(dp) ==
  LET h == SunHeight(dp)
  IN  [x |-> Cos(SunAngle(dp)) * 100,
       y |-> h,
       z |-> Sin(SunAngle(dp)) * 100,
       intensity |-> IF h > 50 * U THEN U
                     ELSE IF h \div 50 > 0 THEN h \div 50 ELSE 0]

\* line 1106
AmbientAt(dp) ==
  IF SunHeight(dp) > 50 * U THEN (3 * U) \div 10 ELSE U \div 10

\* lines 1112-1116: the three sky colours, <<r, g, b>>, each channel as
\* the hex literal gives it, 0 .. 255
SkyDay == <<135, 206, 235>>
SkySunset == <<255, 127, 80>>
SkyNight == <<0, 0, 51>>

\* THREE.Color.lerpColors(c1, c2, t), t = num / den: per channel
\* c1 + (c2 - c1) * t
LerpColors(c1, c2, num, den) ==
  [k \in 1 .. 3 |-> c1[k] + ((c2[k] - c1[k]) * num) \div den]

\* lines 1118-1137 with the day colour reached only at h = 100
SkyColorDayAtNoon(h) ==
  IF h >= 100 * U THEN SkyDay
  ELSE IF h > 25 * U THEN LerpColors(SkySunset, SkyDay, h - 25 * U, 75 * U)
  ELSE IF h > 0 THEN LerpColors(SkyNight, SkySunset, h, 25 * U)
  ELSE SkyNight
\* lines 1118-1137
SkyColor(h) ==
  IF h > 80 * U THEN SkyDay
  ELSE IF h > 25 * U THEN LerpColors(SkySunset, SkyDay, h - 25 * U, 55 * U)
  ELSE IF h > 0 THEN LerpColors(SkyNight, SkySunset, h, 25 * U)
  ELSE SkyNight

\* a lamppost intensity that grows with the height of the sun
LampIntensityRising(h) == IF h < 30 * U THEN h \div 30 ELSE 0

\* lines 1148-1161: the intensity of a lamppost's light and bulb
LampIntensity(h) ==
  IF h < 30 * U
    THEN (IF U - h \div 30 > 0 THEN U - h \div 30 ELSE 0)
    ELSE 0

\* lines 1142-1163: scene.traverse, objects with userData.light
UpdateLamp(e, h) ==
  IF e.kind = "lamppost"
    THEN [e EXCEPT !.light = LampIntensity(h), !.bulb = LampIntensity(h)]
    ELSE e

\* lines 1176-1180: the emissive intensity of a headlight
HeadlightIntensity(h) == IF h < 40 * U THEN U ELSE 0

(* ------------------------------- initCity ------------------------------ *)
\* the lights of the scene as initCity creates them (lines 8, 55, 59-60)
InitLights ==
  /\ sunLight = [x |-> 50 * U, y |-> 100 * U, z |-> 30 * U, intensity |-> U]
  /\ ambientLight = (3 * U) \div 10
  /\ background = SkyDay

HistoryOf(tls) ==
  [k \in DOMAIN tls |->
     [start |-> tls[k].state, timer0 |-> tls[k].timer, flips |-> 0,
      calls |-> 0, last |-> 0]]

\* lines 36-37 and 73-79: the city of initCity, built from one random source
Init ==
  \E seed \in Seeds :
    /\ gridSize = DefaultGridSize
    /\ gridDivisions = DefaultGridDivisions
    /\ buildings = createBuildings(gridSize, gridDivisions)
    /\ cars = createRoads(gridSize, gridDivisions, seed).cars
    /\ trafficLights = createRoads(gridSize, gridDivisions, seed).trafficLights
    /\ pedestrians = createPedestrians(gridSize, gridDivisions, seed)
    /\ streetElements = createStreetElements(gridSize, gridDivisions)
    /\ time = 0
    /\ InitLights
    /\ pc = "clock"
    /\ history = HistoryOf(trafficLights)

(* -------------------------------- animate ------------------------------ *)
\* line 87: time += 0.01
ClockAdvance ==
  /\ pc = "clock"
  /\ time < MaxFrames * Tick01
  /\ time' = time + Tick01
  /\ pc' = "dayNight"
  /\ UNCHANGED <<gridSize, gridDivisions, buildings, cars, trafficLights,
                 pedestrians, streetElements, sunLight, ambientLight,
                 background, history>>

\* lines 88-89 and 1086-1185: updateDayNightCycle(dayProgress, ...)
UpdateDayNight ==
  /\ pc = "dayNight"
  /\ LET dp == DayProgress(time)
         h == SunHeight(dp)
     IN  /\ sunLight' = SunLightAt(dp)
         /\ ambientLight' = AmbientAt(dp)
         /\ background' = SkyColor(h)
         /\ streetElements' =
              [k \in DOMAIN streetElements |-> UpdateLamp(streetElements[k], h)]
         /\ cars' = [k \in DOMAIN cars |->
                       [cars[k] EXCEPT !.headlight = HeadlightIntensity(h)]]
  /\ pc' = "cars"
  /\ UNCHANGED <<gridSize, gridDivisions, buildings, trafficLights,
                 pedestrians, time, history>>

\* a frame that leaves updatePedestrians out: updateCars is followed by
\* updateTrafficLights
UpdateCarsThenSignals ==
  /\ pc = "cars"
  /\ cars' = updateCars(cars, gridSize)
  /\ pc' = "trafficLights"
  /\ UNCHANGED <<gridSize, gridDivisions, buildings, trafficLights,
                 pedestrians, streetElements, time, sunLight, ambientLight,
                 background, history>>

\* line 92
UpdateCars ==
  /\ pc = "cars"
  /\ cars' = updateCars(cars, gridSize)
  /\ pc' = "pedestrians"
  /\ UNCHANGED <<gridSize, gridDivisions, buildings, trafficLights,
                 pedestrians, streetElements, time, sunLight, ambientLight,
                 background, history>>

\* line 93
UpdatePedestrians ==
  /\ pc = "pedestrians"
  /\ pedestrians' = updatePedestrians(pedestrians, gridSize)
  /\ pc' = "trafficLights"
  /\ UNCHANGED <<gridSize, gridDivisions, buildings, cars, trafficLights,
                 streetElements, time, sunLight, ambientLight, background,
                 history>>

\* line 94
UpdateTrafficLights ==
  /\ pc = "trafficLights"
  /\ trafficLights' = updateTrafficLights(trafficLights)
  /\ history' =
       [k \in DOMAIN history |->
          IF Flips(trafficLights[k])
            THEN [history[k] EXCEPT !.flips = @ + 1, !.calls = @ + 1,
                                    !.last = history[k].calls + 1]
            ELSE [history[k] EXCEPT !.calls = @ + 1]]
  /\ pc' = "render"
  /\ UNCHANGED <<gridSize, gridDivisions, buildings, cars, pedestrians,
                 streetElements, time, sunLight, ambientLight, background>>

\* lines 97-100: controls.update() and renderer.render read the scene
Render ==
  /\ pc = "render"
  /\ pc' = "clock"
  /\ UNCHANGED <<gridSize, gridDivisions, buildings, cars, trafficLights,
                 pedestrians, streetElements, time, sunLight, ambientLight,
                 background, history>>

Next ==
  \/ ClockAdvance
  \/ UpdateDayNight
  \/ UpdateCars
  \/ UpdatePedestrians
  \/ UpdateTrafficLights
  \/ Render

Spec == Init /\ [][Next]_vars

(* ------------------- the layout functions on their own ----------------- *)
\* initCity's four calls (lines 73-76), one at a time, for any gridSize and
\* gridDivisions of GridSizes and 1 .. MaxDivisions
InitLayout ==
  /\ gridSize \in GridSizes
  /\ gridDivisions \in 1 .. MaxDivisions
  /\ buildings = <<>>
  /\ cars = <<>>
  /\ trafficLights = <<>>
  /\ pedestrians = <<>>
  /\ streetElements = <<>>
  /\ time = 0
  /\ InitLights
  /\ pc = "createBuildings"
  /\ history = <<>>

\* line 73
CreateBuildings ==
  /\ pc = "createBuildings"
  /\ buildings' = createBuildings(gridSize, gridDivisions)
  /\ pc' = "createRoads"
  /\ UNCHANGED <<gridSize, gridDivisions, cars, trafficLights, pedestrians,
                 streetElements, time, sunLight, ambientLight, background,
                 history>>

\* line 74
CreateRoads ==
  /\ pc = "createRoads"
  /\ \E seed \in Seeds :
       /\ cars' = createRoads(gridSize, gridDivisions, seed).cars
       /\ trafficLights' =
            createRoads(gridSize, gridDivisions, seed).trafficLights
  /\ history' = HistoryOf(trafficLights')
  /\ pc' = "createPedestrians"
  /\ UNCHANGED <<gridSize, gridDivisions, buildings, pedestrians,
                 streetElements, time, sunLight, ambientLight, background>>

\* line 75
CreatePedestrians ==
  /\ pc = "createPedestrians"
  /\ \E seed \in Seeds :
       pedestrians' = createPedestrians(gridSize, gridDivisions, seed)
  /\ pc' = "createStreetElements"
  /\ UNCHANGED <<gridSize, gridDivisions, buildings, cars, trafficLights,
                 streetElements, time, sunLight, ambientLight, background,
                 history>>

\* line 76
CreateStreetElements ==
  /\ pc = "createStreetElements"
  /\ streetElements' = createStreetElements(gridSize, gridDivisions)
  /\ pc' = "clock"
  /\ UNCHANGED <<gridSize, gridDivisions, buildings, cars, trafficLights,
                 pedestrians, time, sunLight, ambientLight, background,
                 history>>

NextLayout ==
  \/ CreateBuildings
  \/ CreateRoads
  \/ CreatePedestrians
  \/ CreateStreetElements

SpecLayout == InitLayout /\ [][NextLayout]_vars

(* ----------------- updateDayNightCycle at any time of day -------------- *)
\* updateDayNightCycle as a function of the clock: animate has advanced
\* time to any multiple of 0.01 up to MaxDayFrames frames (line 87) and calls
\* updateDayNightCycle (line 89).  The function reads dayProgress alone, so
\* the registries it writes to are taken as createRoads and
\* createStreetElements left them.
InitDayNight ==
  /\ gridSize = DefaultGridSize
  /\ gridDivisions = DefaultGridDivisions
  /\ buildings = createBuildings(gridSize, gridDivisions)
  /\ cars = createRoads(gridSize, gridDivisions, 0).cars
  /\ trafficLights = createRoads(gridSize, gridDivisions, 0).trafficLights
  /\ pedestrians = createPedestrians(gridSize, gridDivisions, 0)
  /\ streetElements = createStreetElements(gridSize, gridDivisions)
  /\ time \in {k * Tick01 : k \in 1 .. MaxDayFrames}
  /\ InitLights
  /\ pc = "dayNight"
  /\ history = HistoryOf(trafficLights)

NextDayNight == UpdateDayNight

SpecDayNight == InitDayNight /\ [][NextDayNight]_vars

(* ============================== properties ============================= *)
\* the coordinate of a car or a pedestrian along its road
Along(a) == IF a.road = "horizontal" THEN a.x ELSE a.z
\* the coordinate across its road
Across(a) == IF a.road = "horizontal" THEN a.z ELSE a.x

HalfGrid == (gridSize * U) \div 2

WithinGrid(v) == -HalfGrid <= v /\ v <= HalfGrid

\* C1: in every reachable state, after layout and after any number of
\* frames, the coordinate of every vehicle and every pedestrian along its
\* moving axis (x on a horizontal road, z on a vertical road) lies within
\* [-gridSize/2, +gridSize/2], whatever its direction, speed and start.
C1_PositionsWithinGrid ==
  /\ \A k \in DOMAIN cars : WithinGrid(Along(cars[k]))
  /\ \A k \in DOMAIN pedestrians : WithinGrid(Along(pedestrians[k]))

\* C1 witness: after the second frame a car of direction +1 stands at
\* -gridSize/2 and, in the same state, a pedestrian of direction -1 stands
\* at +gridSize/2: both have crossed an edge and wrapped.
C1_Witness ==
  /\ time > Tick01
  /\ \E k \in DOMAIN cars :
       cars[k].direction = 1 /\ Along(cars[k]) = -HalfGrid
  /\ \E k \in DOMAIN pedestrians :
       pedestrians[k].direction = -1 /\ Along(pedestrians[k]) = HalfGrid

\* the wrap rule as the specification states it
WrapRule(old, speed, direction) ==
  IF direction = 1 /\ old + speed > HalfGrid THEN -HalfGrid
  ELSE IF direction = -1 /\ old - speed < -HalfGrid THEN HalfGrid
  ELSE old + speed * direction

\* C2: the wrap happens in the update call that crosses the bound: an
\* actor of direction +1 whose position + speed exceeds +gridSize/2 is at
\* exactly -gridSize/2 after that one call of updateCars/updatePedestrians,
\* an actor of direction -1 whose position - speed falls below -gridSize/2
\* is at exactly +gridSize/2, and in every other case the coordinate is
\* exactly the old one plus speed * direction (a new coordinate equal to
\* the bound is not reset).
C2_WrapInSameCall ==
  [][ /\ pc = "cars" =>
           \A k \in DOMAIN cars :
             Along(cars'[k]) =
               WrapRule(Along(cars[k]), cars[k].speed, cars[k].direction)
      /\ pc = "pedestrians" =>
           \A k \in DOMAIN pedestrians :
             Along(pedestrians'[k]) =
               WrapRule(Along(pedestrians[k]), pedestrians[k].speed,
                        pedestrians[k].direction)
    ]_vars

\* C2 witness: the first updateCars has just run and a car of direction +1
\* and speed 0.2 is at exactly -gridSize/2 (it started at gridSize/2 - 0.1
\* and crossed), while a pedestrian stands exactly on the bound
\* +gridSize/2 or -gridSize/2 it walks towards, not reset.
C2_Witness ==
  /\ \E k \in DOMAIN cars :
       /\ cars[k].direction = 1
       /\ cars[k].speed = (2 * U) \div 10
       /\ Along(cars[k]) = -HalfGrid
  /\ time = Tick01
  /\ pc = "pedestrians"

\* C2, a further reachable case: a car of direction +1 stands exactly on
\* +gridSize/2:
\* the update that brought it there did not reset it.
C2_OnBoundNotReset ==
  \E k \in DOMAIN cars :
    cars[k].direction = 1 /\ Along(cars[k]) = HalfGrid

\* the cycle RED(0) -> YELLOW(1) -> GREEN(2) -> RED(0)
CycleSuccessor(s) == IF s = 0 THEN 1 ELSE IF s = 1 THEN 2 ELSE 0

\* C3: for every traffic signal and every update the phase stays the same
\* or advances along RED(0) -> YELLOW(1) -> GREEN(2) -> RED(0); the phase
\* is always in {0, 1, 2}; after exactly 3 flips a signal is back in the
\* phase it started from.
C3_PhaseCycle ==
  /\ [](\A k \in DOMAIN trafficLights :
          /\ trafficLights[k].state \in {0, 1, 2}
          /\ history[k].flips = 3 =>
               trafficLights[k].state = history[k].start)
  /\ [][\A k \in DOMAIN trafficLights :
          \/ trafficLights'[k].state = trafficLights[k].state
          \/ trafficLights'[k].state = CycleSuccessor(trafficLights[k].state)
       ]_vars

\* C3 witness: a signal that started RED has flipped exactly 3 times (and
\* every signal has flipped at least once).
C3_Witness ==
  /\ \E k \in DOMAIN trafficLights :
       /\ history[k].start = 0
       /\ history[k].flips = 3
       /\ trafficLights[k].state = 0
  /\ \A k \in DOMAIN trafficLights : history[k].flips >= 1

\* C4: each updateTrafficLights call adds 0.01 to a signal's timer and
\* flips the phase, resetting the timer to 0, if and only if the
\* incremented timer is strictly greater than 5; from RED with timer 4.99
\* the first update leaves RED with timer 5.0 and the second flips to
\* YELLOW with timer 0.
C4_TimerThreshold ==
  [][pc = "trafficLights" =>
       \A k \in DOMAIN trafficLights :
         LET old == trafficLights[k]
             new == trafficLights'[k]
             t == old.timer + U \div 100
         IN  /\ IF t > 5 * U
                  THEN new.state # old.state /\ new.timer = 0
                  ELSE new.state = old.state /\ new.timer = t
             /\ (old.state = 0 /\ old.timer = (499 * U) \div 100) =>
                  (new.state = 0 /\ new.timer = 5 * U)
             /\ (old.state = 0 /\ old.timer = 5 * U) =>
                  (new.state = 1 /\ new.timer = 0)
    ]_vars

\* C4 witness: an update has just left a RED signal with timer exactly 5.0
\* (it came from 4.99 and did not flip); its next update flips it.
C4_Witness ==
  /\ pc = "render"
  /\ \E k \in DOMAIN trafficLights :
       trafficLights[k].state = 0 /\ trafficLights[k].timer = 5 * U

\* the lights of a signal that are lit
Lit(tl) ==
  {c \in {0, 1, 2} :
     (IF c = 0 THEN tl.red ELSE IF c = 1 THEN tl.yellow ELSE tl.green) # 0}

\* the first updateTrafficLights call of the session has returned
FirstUpdateDone ==
  \/ time > Tick01
  \/ time = Tick01 /\ pc \in {"render", "clock"}

\* C5 as stated: in every reachable state from signal creation onward,
\* including before the first frame update, exactly one of a signal's
\* three lights has nonzero emissive intensity, the one of its phase.
C5_Original ==
  \A k \in DOMAIN trafficLights :
    Lit(trafficLights[k]) = {trafficLights[k].state}

\* C5 amended: in every state after the first updateTrafficLights call
\* (so whenever a frame is rendered) exactly one of a signal's three
\* lights has nonzero emissive intensity, the one of its phase; from
\* creation until that first call all three are zero.
C5_OneLightAfterFirstUpdate ==
  \A k \in DOMAIN trafficLights :
    IF FirstUpdateDone
      THEN Lit(trafficLights[k]) = {trafficLights[k].state}
      ELSE Lit(trafficLights[k]) = {}

\* C5 witness: after an update a signal shows green alone, another red
\* alone and another yellow alone.
C5_Witness ==
  /\ FirstUpdateDone
  /\ \A c \in {0, 1, 2} :
       \E k \in DOMAIN trafficLights :
         trafficLights[k].state = c /\ Lit(trafficLights[k]) = {c}

\* blockSize and the centre of row/column i, as the specification gives it:
\* i * blockSize - gridSize/2 + blockSize/2
Block == (gridSize * U) \div gridDivisions
CellCentre(i) == i * Block - HalfGrid + Block \div 2

Cells == (0 .. gridDivisions - 1) \X (0 .. gridDivisions - 1)
IsRoadCell(i, j) == i % 3 = 1 \/ j % 3 = 1

\* where the buildings stand, as <<x, z>>
BuildingPlaces == {<<buildings[k].x, buildings[k].z>> : k \in DOMAIN buildings}

\* the centres of the cells that are not road cells
BuildingCells == {c \in Cells : ~IsRoadCell(c[1], c[2])}
CentreOf(c) == <<CellCentre(c[1]), CellCentre(c[2])>>

\* the row/column whose centre is the coordinate v
CellIndex(v) == (v + HalfGrid) \div Block

\* every entity the layout places, as <<x, z>>
Placed ==
  {<<buildings[k].x, buildings[k].z>> : k \in DOMAIN buildings}
  \cup {<<cars[k].x, cars[k].z>> : k \in DOMAIN cars}
  \cup {<<pedestrians[k].x, pedestrians[k].z>> : k \in DOMAIN pedestrians}
  \cup {<<trafficLights[k].x, trafficLights[k].z>> : k \in DOMAIN trafficLights}
  \cup {<<streetElements[k].x, streetElements[k].z>> :
          k \in DOMAIN streetElements}

\* C6: for any gridSize and gridDivisions the layout places nothing outside
\* the grid's footprint: every building, vehicle, pedestrian, traffic
\* signal, lamppost, bench and tree has -gridSize/2 <= x <= gridSize/2 and
\* -gridSize/2 <= z <= gridSize/2.
C6_NothingOutsideGrid ==
  \A q \in Placed : WithinGrid(q[1]) /\ WithinGrid(q[2])

\* C7: for every cell (i, j) of the N x N grid (N = 10 and every other N
\* up to MaxDivisions), the cell is a road cell iff i mod 3 = 1 or
\* j mod 3 = 1; createBuildings creates exactly one building for every
\* other cell, at the cell's centre (i * blockSize - gridSize/2 +
\* blockSize/2, the same for j), and no building for a road cell.
C7_OneBuildingPerBuildingCell ==
  pc # "createBuildings" =>
    /\ BuildingPlaces = {CentreOf(c) : c \in BuildingCells}
    /\ Len(buildings) = Cardinality(BuildingCells)
    /\ Cardinality(BuildingPlaces) = Len(buildings)
    /\ \A c \in Cells :
         IsRoadCell(c[1], c[2]) => CentreOf(c) \notin BuildingPlaces

\* C7 witness: createBuildings has run on the 10 x 10 grid and left 49
\* buildings; cell (9, 9) has one and the road cell (1, 0) has none.
C7_Witness ==
  /\ pc = "createRoads"
  /\ gridDivisions = 10
  /\ Len(buildings) = 49
  /\ CentreOf(<<9, 9>>) \in BuildingPlaces
  /\ CentreOf(<<1, 0>>) \notin BuildingPlaces

\* the category of the building of cell (i, j) as the specification states it
Category(i, j) ==
  IF (i + j) % 7 = 0 THEN "shop"
  ELSE IF (i + j) % 5 = 0 THEN "apartment"
  ELSE "skyscraper"

\* C8: the building category is a function of (i, j): shop if
\* (i + j) mod 7 = 0, otherwise apartment if (i + j) mod 5 = 0, otherwise
\* skyscraper; where both hold (i + j = 0 or 35) the building is a shop.
C8_CategoryShopWins ==
  \A k \in DOMAIN buildings :
    LET i == CellIndex(buildings[k].x)
        j == CellIndex(buildings[k].z)
    IN  /\ <<buildings[k].x, buildings[k].z>> = CentreOf(<<i, j>>)
        /\ buildings[k].type = Category(i, j)
        /\ ((i + j) % 5 = 0 /\ (i + j) % 7 = 0) =>
             buildings[k].type = "shop"

\* C8 witness: a grid with the building cells (0, 0) and (17, 18), whose
\* i + j = 0 and 35 are multiples of both 5 and 7: both carry a shop.
C8_Witness ==
  /\ gridDivisions >= 19
  /\ \E k \in DOMAIN buildings :
       /\ <<buildings[k].x, buildings[k].z>> = CentreOf(<<0, 0>>)
       /\ buildings[k].type = "shop"
  /\ \E k \in DOMAIN buildings :
       /\ <<buildings[k].x, buildings[k].z>> = CentreOf(<<17, 18>>)
       /\ buildings[k].type = "shop"

\* where the traffic signals stand, as <<x, z>>
SignalPlaces ==
  {<<trafficLights[k].x, trafficLights[k].z>> : k \in DOMAIN trafficLights}

Intersections == {c \in Cells : c[1] % 3 = 1 /\ c[2] % 3 = 1}

\* the place of the signal of intersection c: createRoads puts it 3 units
\* off the centre of the cell on both axes
CornerOf(c) == <<CellCentre(c[1]) + 3 * U, CellCentre(c[2]) + 3 * U>>

\* C9: createRoads creates exactly one traffic signal for every
\* intersection, every (i, j) of [0, gridDivisions)^2 with i mod 3 = 1 and
\* j mod 3 = 1, and none elsewhere; with gridSize = 100 and
\* gridDivisions = 10 these are exactly 9 signals (i, j in {1, 4, 7}),
\* each with an initial phase in {0, 1, 2}.
C9_OneSignalPerIntersection ==
  pc \notin {"createBuildings", "createRoads"} =>
    /\ SignalPlaces = {CornerOf(c) : c \in Intersections}
    /\ Len(trafficLights) = Cardinality(Intersections)
    /\ Cardinality(SignalPlaces) = Len(trafficLights)
    /\ (gridSize = 100 /\ gridDivisions = 10) =>
         /\ Len(trafficLights) = 9
         /\ Intersections = {1, 4, 7} \X {1, 4, 7}
    /\ \A k \in DOMAIN trafficLights :
         /\ trafficLights[k].state \in {0, 1, 2}
         /\ history[k].start = trafficLights[k].state

\* C9 witness: createRoads has run for gridSize = 100, gridDivisions = 10
\* and left 9 signals, which between them start in all three phases.
C9_Witness ==
  /\ pc = "createPedestrians"
  /\ gridSize = 100
  /\ gridDivisions = 10
  /\ Len(trafficLights) = 9
  /\ {trafficLights[k].state : k \in DOMAIN trafficLights} = {0, 1, 2}

\* the per-channel linear blend of two colours, t = num / den
Blend(c1, c2, num, den) ==
  <<c1[1] + ((c2[1] - c1[1]) * num) \div den,
    c1[2] + ((c2[2] - c1[2]) * num) \div den,
    c1[3] + ((c2[3] - c1[3]) * num) \div den>>

\* the sky colour as the specification states it, h the sun height
SkyOf(h) ==
  IF h > 80 * U THEN <<135, 206, 235>>
  ELSE IF h > 25 * U
    THEN Blend(<<255, 127, 80>>, <<135, 206, 235>>, h - 25 * U, 55 * U)
  ELSE IF h > 0 THEN Blend(<<0, 0, 51>>, <<255, 127, 80>>, h, 25 * U)
  ELSE <<0, 0, 51>>

\* the part of C10 that holds: the piecewise function, its value at
\* h = 25 and at h = 100, and the two bands agreeing where they meet
SkyPiecewise ==
  /\ background = SkyOf(sunLight.y)
  /\ sunLight.y > 80 * U => background = <<135, 206, 235>>
  /\ sunLight.y <= 0 => background = <<0, 0, 51>>
  /\ sunLight.y = 25 * U => background = <<255, 127, 80>>
  /\ sunLight.y = 100 * U => background = <<135, 206, 235>>
  /\ Blend(<<0, 0, 51>>, <<255, 127, 80>>, 25 * U, 25 * U)
       = Blend(<<255, 127, 80>>, <<135, 206, 235>>, 0, 55 * U)

\* C10 as stated: the sky colour is the piecewise function of the sun
\* height h (day for h > 80, sunset-to-day blend with t = (h - 25)/55 for
\* 25 < h <= 80, night-to-sunset blend with t = h/25 for 0 < h <= 25,
\* night for h <= 0), sunset at h = 25, and at dayProgress 0.25 the sun
\* height is 100 and the sky is the pure day colour.
C10_Original ==
  pc = "cars" =>
    /\ SkyPiecewise
    /\ 4 * DayProgress(time) = FramesPerDay =>
         (sunLight.y = 100 * U /\ background = <<135, 206, 235>>)

\* C10 amended: the same piecewise function, sunset at h = 25 and day at
\* h = 100; but h = 100 is reached at dayProgress 0.5 (angle pi/2), while
\* at dayProgress 0.25 (angle 0) h is 50 and the sky is the sunset-to-day
\* blend with t = 25/55.
C10_SkyColour ==
  pc = "cars" =>
    /\ SkyPiecewise
    /\ 2 * DayProgress(time) = FramesPerDay =>
         (sunLight.y = 100 * U /\ background = <<135, 206, 235>>)
    /\ 4 * DayProgress(time) = FramesPerDay =>
         /\ sunLight.y = 50 * U
         /\ background =
              Blend(<<255, 127, 80>>, <<135, 206, 235>>, 25 * U, 55 * U)
         /\ background # <<135, 206, 235>>

\* C10 witness: updateDayNightCycle has run with the sun at height exactly
\* 25, where the two blends meet, and the sky is the pure sunset colour.
C10_Witness ==
  /\ pc = "cars"
  /\ sunLight.y = 25 * U
  /\ background = <<255, 127, 80>>

(* ------------------------------ lampposts ------------------------------ *)
\* the lampposts of the street furniture
Lampposts == {k \in DOMAIN streetElements : streetElements[k].kind = "lamppost"}

\* the lamppost intensity as the specification states it, for a sun height
\* h: max(0, 1 - h/30) below 30 and 0 from 30 on
LampOf(h) ==
  IF h < 30 * U
    THEN (IF U - h \div 30 >= 0 THEN U - h \div 30 ELSE 0)
    ELSE 0

\* sun heights from 0 to 100 in steps of 0.5
HeightSamples == {k * (U \div 2) : k \in 0 .. 2 * DefaultGridSize}

\* C11: once updateDayNightCycle has run for a sun height h, the point
\* light and the bulb emissive of every lamppost hold the same intensity,
\* max(0, 1 - h/30) when h < 30 and 0 otherwise; the intensity lies in
\* [0, 1], is exactly 0 for h >= 30, and is non-increasing in h: no higher
\* sun gives a brighter lamp and no lower sun a dimmer one.
C11_LampIntensity ==
  pc = "cars" =>
    /\ \A k \in Lampposts :
         /\ streetElements[k].light = LampOf(sunLight.y)
         /\ streetElements[k].bulb = streetElements[k].light
         /\ 0 <= streetElements[k].light /\ streetElements[k].light <= U
         /\ sunLight.y >= 30 * U => streetElements[k].light = 0
    /\ \A g \in HeightSamples :
         /\ g >= sunLight.y => LampIntensity(g) <= LampOf(sunLight.y)
         /\ g <= sunLight.y => LampIntensity(g) >= LampOf(sunLight.y)
    /\ 0 <= sunLight.y /\ sunLight.y <= 100 * U

\* C11 witness: updateDayNightCycle has run with the sun at height 25 and
\* every lamppost (there are some) shines with 1 - 25/30, light and bulb
\* alike, strictly between dark and full.
C11_Witness ==
  /\ pc = "cars"
  /\ sunLight.y = 25 * U
  /\ Lampposts # {}
  /\ \A k \in Lampposts :
       /\ streetElements[k].light = U - (25 * U) \div 30
       /\ streetElements[k].bulb = U - (25 * U) \div 30
       /\ 0 < streetElements[k].light /\ streetElements[k].light < U

(* ------------------------------ frame order ---------------------------- *)
\* the step that follows a step of the frame, as the specification orders
\* them: clock advance, day/night, vehicles, pedestrians, signals, render
FrameSuccessor(p) ==
  CASE p = "clock" -> "dayNight"
    [] p = "dayNight" -> "cars"
    [] p = "cars" -> "pedestrians"
    [] p = "pedestrians" -> "trafficLights"
    [] p = "trafficLights" -> "render"
    [] p = "render" -> "clock"

\* the positions of the actors along their roads
CarPositions == [k \in DOMAIN cars |-> Along(cars[k])]
PedestrianPositions == [k \in DOMAIN pedestrians |-> Along(pedestrians[k])]
SignalTimers == [k \in DOMAIN trafficLights |-> trafficLights[k].timer]

\* C12: every step of the program is the next step of the frame in the
\* order clock advance, day/night update, updateCars, updatePedestrians,
\* updateTrafficLights, render, so each runs once per frame and a frame
\* runs to completion before the next starts; the clock step adds exactly
\* 0.01 to time and no other step changes it, so time strictly increases
\* from frame to frame; vehicles move only in their step, pedestrians only
\* in theirs and signal timers only in theirs, each of them in every frame;
\* and the dayProgress handed to updateDayNightCycle is
\* (time mod dayDuration) / dayDuration, always in [0, 1).
C12_FrameOrder ==
  /\ [](/\ pc \in {"clock", "dayNight", "cars", "pedestrians",
                   "trafficLights", "render"}
        /\ DayProgress(time) \in 0 .. FramesPerDay - 1
        /\ DayProgress(time) * Tick01 = time % (dayDuration * U))
  /\ [][ /\ pc' = FrameSuccessor(pc)
         /\ IF pc = "clock" THEN time' = time + Tick01 ELSE time' = time
         /\ (CarPositions' # CarPositions) <=> pc = "cars"
         /\ (PedestrianPositions' # PedestrianPositions) <=> pc = "pedestrians"
         /\ (SignalTimers' # SignalTimers) <=> pc = "trafficLights"
         /\ sunLight' # sunLight => pc = "dayNight"
         /\ pc = "dayNight" => sunLight'.y = SunHeight(DayProgress(time))
     ]_vars

\* C12 witness: the second frame has run up to its render step: the clock
\* has advanced twice, updateDayNightCycle has placed the sun for
\* dayProgress 2/12000 and set the headlights, and the actors and the
\* signals have been updated.
C12_Witness ==
  /\ pc = "render"
  /\ time = 2 * Tick01
  /\ DayProgress(time) = 2
  /\ sunLight.y = SunHeight(2)
  /\ FirstUpdateDone
  /\ \A k \in DOMAIN cars : cars[k].headlight = HeadlightIntensity(sunLight.y)

(* ------------------------------- vehicles ------------------------------ *)
\* createRoads has returned (the layout functions on their own)
RoadsCreated == pc \in {"createPedestrians", "createStreetElements", "clock"}

\* the road strips of the grid: a road index and an orientation
Strips ==
  {i \in 0 .. gridDivisions - 1 : i % 3 = 1} \X {"horizontal", "vertical"}

\* the cars of a strip, by their index in the registry
CarsOn(s) ==
  {k \in DOMAIN cars : cars[k].roadIndex = s[1] /\ cars[k].road = s[2]}

\* the lane offset of a car (the sidewalk offset of a pedestrian): its
\* distance from the centre line of its road
LaneOf(car) ==
  Across(car) - (car.roadIndex * BlockSize(gridSize, gridDivisions)
                   - CenterOffset(gridSize))

\* the direction of travel is a function of the sign of the lane
DirectionByLane ==
  \A k \in DOMAIN cars :
    /\ LaneOf(cars[k]) \in {-2 * U, 2 * U}
    /\ LaneOf(cars[k]) = 2 * U => cars[k].direction = -1
    /\ LaneOf(cars[k]) = -2 * U => cars[k].direction = 1

\* C13 as stated: on every road strip createRoads spawns 3 vehicles of
\* direction +1 and 3 of direction -1, in lanes -2 and +2, the direction
\* determined by the sign of the lane.
C13_Original ==
  RoadsCreated =>
    /\ \A s \in Strips :
         /\ Cardinality({k \in CarsOn(s) : cars[k].direction = 1}) = 3
         /\ Cardinality({k \in CarsOn(s) : cars[k].direction = -1}) = 3
    /\ DirectionByLane

\* C13: on every road strip (road index i with i mod 3 = 1, horizontal
\* and vertical) createRoads spawns exactly 3 vehicles, in the lanes -2,
\* +2, -2 in spawning order: two in lane -2 with direction +1 and one in
\* lane +2 with direction -1; every vehicle is on a road strip and its
\* direction is determined by the sign of its lane (+2 always -1, -2
\* always +1).
C13_ThreeCarsPerStrip ==
  RoadsCreated =>
    /\ \A s \in Strips :
         /\ Cardinality(CarsOn(s)) = 3
         /\ Cardinality({k \in CarsOn(s) :
              LaneOf(cars[k]) = -2 * U /\ cars[k].direction = 1}) = 2
         /\ Cardinality({k \in CarsOn(s) :
              LaneOf(cars[k]) = 2 * U /\ cars[k].direction = -1}) = 1
         /\ \A k \in CarsOn(s) :
              k + 1 \in CarsOn(s) => LaneOf(cars[k + 1]) = -LaneOf(cars[k])
    /\ \A k \in DOMAIN cars : <<cars[k].roadIndex, cars[k].road>> \in Strips
    /\ Len(cars) = 3 * Cardinality(Strips)
    /\ DirectionByLane

\* C13 witness: createRoads has laid out the 100/10 city: 6 road strips
\* with 18 vehicles, 12 of direction +1 and 6 of direction -1.
C13_Witness ==
  /\ RoadsCreated
  /\ gridSize = DefaultGridSize /\ gridDivisions = DefaultGridDivisions
  /\ Cardinality(Strips) = 6
  /\ Len(cars) = 18
  /\ Cardinality({k \in DOMAIN cars : cars[k].direction = 1}) = 12
  /\ Cardinality({k \in DOMAIN cars : cars[k].direction = -1}) = 6

(* --------------------------- street furniture -------------------------- *)
\* createStreetElements has returned (the layout functions on their own)
StreetElementsCreated == pc = "clock"

Kinds == {"lamppost", "bench", "tree"}

\* the rule of the specification for index j along a road strip
Wanted(kind, j) ==
  /\ j % 3 # 1
  /\ CASE kind = "lamppost" -> j % 4 = 0
       [] kind = "bench" -> j % 4 = 2
       [] kind = "tree" -> j % 2 = 0

\* the distance of an element of a kind from the centre of its block row
SideOffset(kind) ==
  CASE kind = "lamppost" -> 5 * U
    [] kind = "bench" -> 4 * U
    [] kind = "tree" -> 6 * U

\* where an element of a kind stands at index j along road strip s
Place(kind, s, j) ==
  LET along == StreetCoord(j, gridSize, gridDivisions)
      across == StreetCoord(s[1], gridSize, gridDivisions) + SideOffset(kind)
  IN  IF s[2] = "horizontal" THEN <<along, across>> ELSE <<across, along>>

\* the places along the road strips
Slots == Strips \X (0 .. gridDivisions - 1)

\* no two slots of the grid give the same place to a kind
PlacesDistinct(kind) ==
  Cardinality({Place(kind, sl[1], sl[2]) : sl \in Slots}) = Cardinality(Slots)

ElementsOf(kind) ==
  {k \in DOMAIN streetElements : streetElements[k].kind = kind}

\* an element of the kind stands at index j of strip s
ElementAt(kind, s, j) ==
  <<kind, Place(kind, s, j)>> \in
    {<<streetElements[k].kind, <<streetElements[k].x, streetElements[k].z>>>> :
       k \in DOMAIN streetElements}

\* C14: createStreetElements places, on every road strip (road index i,
\* horizontal and vertical) and at every index j that is not an
\* intersection (j mod 3 # 1), a lamppost iff j mod 4 = 0, a bench iff
\* j mod 4 = 2 and a tree iff j mod 2 = 0, and nothing where j mod 3 = 1;
\* so wherever a lamppost or a bench stands a tree stands too; each kind
\* has exactly one element per wanted place and, with gridDivisions = 10,
\* there are 12 lampposts, 12 benches and 24 trees.
C14_StreetFurniture ==
  StreetElementsCreated =>
    /\ \A kind \in Kinds :
         /\ Cardinality(ElementsOf(kind)) =
              Cardinality({sl \in Slots : Wanted(kind, sl[2])})
         /\ \A sl \in Slots :
              Wanted(kind, sl[2]) => ElementAt(kind, sl[1], sl[2])
         /\ PlacesDistinct(kind) =>
              \A sl \in Slots :
                ElementAt(kind, sl[1], sl[2]) => Wanted(kind, sl[2])
    /\ \A k \in DOMAIN streetElements : streetElements[k].kind \in Kinds
    /\ \A sl \in Slots :
         (Wanted("lamppost", sl[2]) \/ Wanted("bench", sl[2]))
           => ElementAt("tree", sl[1], sl[2])
    /\ gridDivisions = DefaultGridDivisions =>
         /\ Cardinality(ElementsOf("lamppost")) = 12
         /\ Cardinality(ElementsOf("bench")) = 12
         /\ Cardinality(ElementsOf("tree")) = 24

\* C14 witness: the street furniture of the 100/10 city is laid out: 12
\* lampposts, 12 benches and 24 trees, a lamppost and a tree at index 8 of
\* the horizontal strip of road 1, a bench and a tree at index 6, and
\* nothing at the intersection index 4.
C14_Witness ==
  /\ StreetElementsCreated
  /\ gridSize = DefaultGridSize /\ gridDivisions = DefaultGridDivisions
  /\ Len(streetElements) = 48
  /\ \A kind \in Kinds : PlacesDistinct(kind)
  /\ ElementAt("lamppost", <<1, "horizontal">>, 8)
  /\ ElementAt("tree", <<1, "horizontal">>, 8)
  /\ ElementAt("bench", <<1, "horizontal">>, 6)
  /\ ElementAt("tree", <<1, "horizontal">>, 6)
  /\ \A kind \in Kinds : ~ElementAt(kind, <<1, "horizontal">>, 4)

(* ------------------- what updateDayNightCycle leaves alone ------------- *)
\* where the objects of a registry stand
PlacesOf(registry) ==
  [k \in DOMAIN registry |-> <<registry[k].x, registry[k].z>>]

\* speed and direction of the actors of a registry
MotionOf(registry) ==
  [k \in DOMAIN registry |-> <<registry[k].speed, registry[k].direction>>]

\* phase and timer of every signal
PhasesOf(tls) == [k \in DOMAIN tls |-> <<tls[k].state, tls[k].timer>>]

\* the position of the sun light
SunPlace == <<sunLight.x, sunLight.y, sunLight.z>>

\* everything of the scene but the sun light stays where it is, and the
\* signals and the motion of the actors are untouched
ActorsAndFurnitureUntouched ==
  /\ PlacesOf(cars') = PlacesOf(cars)
  /\ PlacesOf(pedestrians') = PlacesOf(pedestrians)
  /\ PlacesOf(trafficLights') = PlacesOf(trafficLights)
  /\ PlacesOf(streetElements') = PlacesOf(streetElements)
  /\ buildings' = buildings
  /\ PhasesOf(trafficLights') = PhasesOf(trafficLights)
  /\ MotionOf(cars') = MotionOf(cars)
  /\ MotionOf(pedestrians') = MotionOf(pedestrians)

\* what updateDayNightCycle writes is a function of dayProgress alone
OutputsOfDayProgress(dp) ==
  /\ sunLight'.intensity \in {U, SunHeight(dp) \div 50}
  /\ sunLight'.intensity = U <=> SunHeight(dp) >= 50 * U
  /\ ambientLight' = (IF SunHeight(dp) > 50 * U THEN (3 * U) \div 10
                      ELSE U \div 10)
  /\ background' = SkyOf(SunHeight(dp))
  /\ \A k \in Lampposts :
       /\ streetElements'[k].light = LampOf(SunHeight(dp))
       /\ streetElements'[k].bulb = LampOf(SunHeight(dp))
  /\ \A k \in DOMAIN cars :
       cars'[k].headlight = (IF SunHeight(dp) < 40 * U THEN U ELSE 0)

\* C15 as stated: a call of updateDayNightCycle changes no position, the
\* sun light's included, nor any signal's phase and timer nor any actor's
\* speed and direction.
C15_Original ==
  [][pc = "dayNight" =>
       /\ SunPlace' = SunPlace
       /\ ActorsAndFurnitureUntouched
    ]_vars

\* C15: a call of updateDayNightCycle leaves every vehicle, pedestrian,
\* signal, piece of street furniture and building where it is, and every
\* signal's phase and timer and every actor's speed and direction as they
\* are; it moves the sun light to (cos(angle) * 100, h, sin(angle) * 100)
\* and writes intensities and colours; all it writes is determined by
\* dayProgress.
C15_DayNightWrites ==
  [][pc = "dayNight" =>
       /\ ActorsAndFurnitureUntouched
       /\ SunPlace' = <<Cos(SunAngle(DayProgress(time))) * 100,
                        SunHeight(DayProgress(time)),
                        Sin(SunAngle(DayProgress(time))) * 100>>
       /\ OutputsOfDayProgress(DayProgress(time))
    ]_vars

\* C15 witness: updateDayNightCycle has run in the second frame (the actors
\* and the signals have been updated once before it): the sun light has
\* left the place initCity gave it and stands low in the night sky, the
\* lampposts and the headlights are lit.
C15_Witness ==
  /\ pc = "cars"
  /\ time = 2 * Tick01
  /\ SunPlace # <<50 * U, 100 * U, 30 * U>>
  /\ sunLight.y < U /\ sunLight.z < -99 * U
  /\ \A k \in Lampposts : streetElements[k].light > 0
  /\ \A k \in DOMAIN cars : cars[k].headlight = U

(* ------------------- what the motion update leaves alone --------------- *)
\* everything of an actor but its coordinate along its road (and the way
\* it faces): the coordinate across the road, speed, direction, axis and
\* road index
FixedPart(a) == <<Across(a), a.speed, a.direction, a.road, a.roadIndex>>

FixedParts(registry) == [k \in DOMAIN registry |-> FixedPart(registry[k])]

\* C16: no step of the program, updateCars and updatePedestrians included
\* and whether or not the actor wraps in it, changes a vehicle's or a
\* pedestrian's coordinate across its road (lane or sidewalk offset), its
\* speed, its direction, its axis or its road index: only the coordinate
\* along the road moves, so over any number of frames an actor never
\* reverses and never changes lane.
C16_MotionAlongAxisOnly ==
  [][ /\ FixedParts(cars') = FixedParts(cars)
      /\ FixedParts(pedestrians') = FixedParts(pedestrians)
      /\ pc = "cars" =>
           \A k \in DOMAIN cars :
             /\ Along(cars'[k]) # Along(cars[k])
             /\ cars'[k].rotation = cars[k].rotation
      /\ pc = "pedestrians" =>
           \A k \in DOMAIN pedestrians :
             Along(pedestrians'[k]) # Along(pedestrians[k])
    ]_vars

\* C16 witness: updatePedestrians has just returned in a frame after the
\* first; a vehicle of direction +1 has wrapped to -gridSize/2, still in
\* lane -2 of its road, and a pedestrian of direction -1 has wrapped to
\* +gridSize/2, still on its sidewalk, 6 to one side of the road's centre.
C16_Witness ==
  /\ pc = "trafficLights"
  /\ time > Tick01
  /\ \E k \in DOMAIN cars :
       /\ cars[k].direction = 1
       /\ Along(cars[k]) = -HalfGrid
       /\ LaneOf(cars[k]) = -2 * U
  /\ \E k \in DOMAIN pedestrians :
       /\ pedestrians[k].direction = -1
       /\ Along(pedestrians[k]) = HalfGrid
       /\ LaneOf(pedestrians[k]) \in {6 * U, -6 * U}

(* ---------------------------- signal periods --------------------------- *)
\* the hundredths in a timer value
Hundredths(timer) == timer \div (U \div 100)

\* the update call at which a signal created with timer t0 flips first:
\* the first call that brings the timer above 5
FirstFlipCall(t0) ==
  IF Hundredths(t0) > 499 THEN 1 ELSE 501 - Hundredths(t0)

\* C17: the timers are whole hundredths; any two consecutive flips of a
\* signal are exactly 501 updateTrafficLights calls apart, whatever the
\* phase (the timer runs from 0 to 5.01); only the first flip depends on
\* the random timer of creation, which lies in [0, 10): it comes at the
\* first call that brings the timer above 5, so a signal created with a
\* timer above 4.99 flips in its very first update; and once a signal has
\* been updated its timer stays within [0, 5].
C17_FlipPeriod ==
  /\ [](\A k \in DOMAIN trafficLights :
          /\ trafficLights[k].timer % (U \div 100) = 0
          /\ 0 <= history[k].timer0 /\ history[k].timer0 < 10 * U
          /\ history[k].calls >= 1 =>
               (0 <= trafficLights[k].timer /\ trafficLights[k].timer <= 5 * U))
  /\ [][pc = "trafficLights" =>
          \A k \in DOMAIN trafficLights :
            LET flipped == trafficLights'[k].state # trafficLights[k].state
                call == history[k].calls + 1
            IN  /\ (flipped /\ history[k].flips >= 1) =>
                     call - history[k].last = 501
                /\ (~flipped /\ history[k].flips >= 1) =>
                     call - history[k].last < 501
                /\ history[k].flips = 0 =>
                     (flipped <=> call = FirstFlipCall(history[k].timer0))
                /\ (history[k].calls = 0
                      /\ trafficLights[k].timer > (499 * U) \div 100) => flipped
     ]_vars

\* C17 witness: a signal created with a timer above 4.99 flipped in its
\* first update and again in its 502nd; for each of the phases RED, YELLOW
\* and GREEN some signal has spent a whole phase in it, from its first
\* flip to its second; another signal, created with a timer of at most
\* 4.99, flipped first in a later call than the first.
C17_Witness ==
  /\ \E k \in DOMAIN trafficLights :
       /\ history[k].timer0 > (499 * U) \div 100
       /\ history[k].flips = 2
       /\ history[k].last = 1 + 501
  /\ \A c \in {0, 1, 2} :
       \E k \in DOMAIN trafficLights :
         /\ history[k].flips = 2
         /\ trafficLights[k].state = CycleSuccessor(c)
  /\ \E k \in DOMAIN trafficLights :
       /\ history[k].timer0 <= (499 * U) \div 100
       /\ history[k].flips >= 1
       /\ history[k].last > 1

(* --------------------- the signals in the frame loop ------------------- *)
\* The frame loop as the traffic lights see it.  animate registers itself
\* for the next frame before anything else (line 84) and calls
\* updateTrafficLights once per frame (line 94); updateTrafficLights does not
\* read its time parameter (lines 1051-1083) and no other call of the frame
\* reads or writes the trafficLights registry (C4, C12, C15 and C16 check
\* that under Spec).  The clock and the actors are therefore left where
\* initCity put them, which keeps the state space finite however long the
\* loop runs; history keeps the record of creation.
InitSignals ==
  \E seed \in Seeds :
    /\ gridSize = DefaultGridSize
    /\ gridDivisions = DefaultGridDivisions
    /\ buildings = createBuildings(gridSize, gridDivisions)
    /\ cars = createRoads(gridSize, gridDivisions, seed).cars
    /\ trafficLights = createRoads(gridSize, gridDivisions, seed).trafficLights
    /\ pedestrians = createPedestrians(gridSize, gridDivisions, seed)
    /\ streetElements = createStreetElements(gridSize, gridDivisions)
    /\ time = 0
    /\ InitLights
    /\ pc = "trafficLights"
    /\ history = HistoryOf(trafficLights)

\* line 94, once per frame
SignalFrame ==
  /\ pc = "trafficLights"
  /\ trafficLights' = updateTrafficLights(trafficLights)
  /\ UNCHANGED <<gridSize, gridDivisions, buildings, cars, pedestrians,
                 streetElements, time, sunLight, ambientLight, background,
                 pc, history>>

NextSignals == SignalFrame

\* line 84: requestAnimationFrame(animate) in every frame: the frame step
\* keeps being taken
SpecSignals == InitSignals /\ [][NextSignals]_vars /\ WF_vars(SignalFrame)

\* the signals of the 100/10 city, by their index in the registry
SignalIndices ==
  1 .. Len(createRoads(DefaultGridSize, DefaultGridDivisions, 0).trafficLights)

\* C18: as long as frames keep being run (weak fairness of the frame
\* step), every traffic signal, whatever its phase and timer at creation
\* and whatever the other signals do, is RED infinitely often, YELLOW
\* infinitely often and GREEN infinitely often: no signal gets stuck in a
\* phase.
C18_EveryPhaseRecurs ==
  \A k \in SignalIndices :
    \A c \in {0, 1, 2} : []<>(trafficLights[k].state = c)

\* C18 witness: every signal of the city (there are 9) has been updated
\* and shows a light, and one that flipped in its very first update (timer
\* of creation above 5) is back in the phase of its creation with the
\* timer at 5.0: it has been through all three phases and is about to
\* leave the first again.
C18_Witness ==
  /\ DOMAIN trafficLights = SignalIndices
  /\ Cardinality(SignalIndices) = 9
  /\ \A k \in SignalIndices : Lit(trafficLights[k]) # {}
  /\ \E k \in SignalIndices :
       /\ history[k].timer0 > 5 * U
       /\ trafficLights[k].state = history[k].start
       /\ trafficLights[k].timer = 5 * U

=============================================================================
